---- MODULE Spec2Model ----
(***************************************************************************)
(* clamavmirror: ClamAV signature mirroring tool.                          *)
(*                                                                         *)
(* State machine of clamavmirror/__init__.py: main() takes the advisory    *)
(* lock, work() resolves the TXT record, starts the two worker pools,      *)
(* enqueues one item per signature type, joins both queues and writes      *)
(* dns.txt.  The filesystem (mirror directory, working directory, lock     *)
(* file) is shared by every invocation; everything else is per process.    *)
(***************************************************************************)
EXTENDS Integers, Sequences, FiniteSets

(* ---------------------------------------------------------------- bounds *)
\* Invocations of the program in one behaviour.
NumProcs == 2
\* Runs (invocations that held the lock) that may end before the last one starts.
MaxEnded == 0
\* Signature types modelled: a prefix of the list work() iterates over.
NumStreams == 2
\* Versions are 1..MaxVer.
MaxVer == 2

(* ------------------------------------------------------ program constants *)
dqueue_workers == 3
mqueue_workers == 4
\* get_record: for passno in range(1, 5)
MaxPass == 4
\* update_diff: for _ in range(1, 6)
MaxTries == 5
\* record.split(':') is unpacked into 8 names
NumFields == 8
ExitOk == 0
ExitUncaught == 1
ExitNoRecord == 3
ExitLocked == 254

Procs == 1..NumProcs
Versions == 1..MaxVer
\* get_local_version returns None: no file, or no "Version:" line.
None == 0

AllTypes == <<"main", "daily", "bytecode", "safebrowsing">>
SigTypes == SubSeq(AllTypes, 1, NumStreams)
Streams == {SigTypes[i] : i \in 1..Len(SigTypes)}
DiffTypes == {"daily", "bytecode", "safebrowsing"}

\* _, mainv, dailyv, _, _, _, safebrowsingv, bytecodev = record.split(':')
FieldOf(s) ==
    CASE s = "main" -> 2
      [] s = "daily" -> 3
      [] s = "safebrowsing" -> 7
      [] s = "bytecode" -> 8

VersionFields == {FieldOf(AllTypes[i]) : i \in 1..Len(AllTypes)}
ModelledFields == {FieldOf(s) : s \in Streams}

\* A record text with version v(s) for signature type s: NumFields fields, the
\* version fields of the types that are not modelled 1, the other fields 0.
RecordText(v) ==
    [i \in 1..NumFields |->
        IF i \in ModelledFields THEN v[CHOOSE s \in Streams : FieldOf(s) = i]
        ELSE IF i \in VersionFields THEN 1 ELSE 0]

\* The TXT records the resolver may answer with.
Records == {RecordText(v) : v \in [Streams -> Versions]}

\* Answers that do not split into NumFields fields: a field short, a field
\* over.
BadRecords ==
    {SubSeq(r, 1, NumFields - 1) : r \in Records} \cup {Append(r, 0) : r \in Records}

\* What get_txt_record may return when the query is answered.
Answers == Records \cup BadRecords

\* versions = {'main': mainv, ...}
VersionsOf(record) == [s \in Streams |-> record[FieldOf(s)]]

(* ------------------------------------------------------------ filesystem *)
NoFile == [exists |-> FALSE, valid |-> FALSE, version |-> None]
Bundle(v) == [exists |-> TRUE, valid |-> TRUE, version |-> v]
Corrupt == [exists |-> TRUE, valid |-> FALSE, version |-> None]
\* What the source host may serve for a .cvd with status 200.
Served == {Bundle(v) : v \in Versions} \cup {Corrupt}

\* Artifact names: <<s, 0>> is s.cvd, <<s, n>> is s-n.cdiff.
Cvd(s) == <<s, 0>>
\* A diff named after its signature type alone, like the bundle.
CdiffUnnumbered(s, n) == <<s, 0>>
Cdiff(s, n) == <<s, n>>
\* Diff steps a run may name: range(int(localver), int(remotever) + 1).
DiffNames == {Cdiff(s, n) : s \in Streams \cap DiffTypes, n \in Versions}
Artifacts == {Cvd(s) : s \in Streams} \cup DiffNames

\* dns.txt
NoMarker == [exists |-> FALSE, complete |-> FALSE, text |-> <<>>]
Marker(text) == [exists |-> TRUE, complete |-> TRUE, text |-> text]
\* open(name, 'w') has truncated the file, write() has not happened yet.
Truncated == [exists |-> TRUE, complete |-> FALSE, text |-> <<>>]

VARIABLES
    lock,       \* holder of the lockf lock on <lockdir>/clamavmirror, 0 if free
    proc,       \* per invocation: main thread, queues, workers
    mirrorCvd,  \* mirrordir/<s>.cvd
    workCvd,    \* workdir/<s>.cvd
    mirrorDiff, \* the <s>-<n>.cdiff files in mirrordir
    workDiff,   \* the <s>-<n>.cdiff files in workdir
    dnsTxt      \* mirrordir/dns.txt

vars == <<lock, proc, mirrorCvd, workCvd, mirrorDiff, workDiff, dnsTxt>>
fs == <<mirrorCvd, workCvd, mirrorDiff, workDiff, dnsTxt>>

(* -------------------------------------------------------- pure functions *)
\* hashlib.md5 of a text: a positional encoding, one digest per text, never
\* the '' that get_file_md5 returns for a missing file.
RECURSIVE Md5Hex(_)
Md5Hex(text) ==
    IF text = <<>> THEN 1
    ELSE (text[Len(text)] + 1) + (MaxVer + 2) * Md5Hex(SubSeq(text, 1, Len(text) - 1))

EmptyDigest == 0

get_md5(string) == Md5Hex(string)

get_file_md5(file) == IF file.exists THEN Md5Hex(file.text) ELSE EmptyDigest

\* sigtool -i <file>: the "Version:" line, None without file or line.
get_local_version(file) == IF file.exists THEN file.version ELSE None

\* sigtool -i <file> exits 0
verify_sigfile(file) == file.exists /\ file.valid

\* check_download(obj, version, workdir, signame): TRUE when it returns,
\* FALSE when it raises ValueError.  Nothing in the module calls it.
check_download(version, file) ==
    version = None \/ (verify_sigfile(file) /\ version = get_local_version(file))

\* update_sig: localver is None or (localver and int(localver) < int(remotever))
NeedsUpdate(localver, remotever) ==
    localver = None \/ localver < remotever

\* download_diffs: range(int(localver), int(remotever) + 1)
DiffRange(localver, remotever) == localver..remotever

\* create_dns_file without the comparison: the marker is always rewritten.
MarkerAlwaysStale(file, record) == TRUE

\* create_dns_file: localmd5 != remotemd5
MarkerStale(file, record) == get_file_md5(file) # get_md5(record)

(* ------------------------------------------------------- process records *)
\* A diff worker's item: localver, remotever, the steps still to visit, the
\* step and pass of update_diff, and the code of the last download_sig.
NoItem == [st |-> "none", localver |-> 0, remotever |-> 0, todo |-> {},
           num |-> 0, try |-> 0, code |-> 0]

\* An invocation: the main thread (pc, exit code, get_record's pass, the
\* record, the loop index of work), the two queues with their unfinished
\* task counts, and the workers by the item they hold.  The rest records
\* what the invocation found and did: its place among the lock holders, the
\* mirror as it found it, the last answer of the resolver, the bodies it
\* downloaded, its requests per artifact, the artifacts it deployed and its
\* writes of dns.txt.
InitProc ==
    [pc |-> "start", code |-> 0, contended |-> FALSE,
     passno |-> 0, record |-> <<>>, started |-> FALSE, idx |-> 0,
     mqueue |-> <<>>, munf |-> 0, dqueue |-> <<>>, dunf |-> 0,
     sig |-> [s \in Streams |-> "none"],
     diff |-> [s \in Streams |-> NoItem],
     seq |-> 0,
     startver |-> [s \in Streams |-> None],
     startdiffs |-> {},
     startmarker |-> NoMarker,
     lastq |-> "none",
     got |-> [s \in Streams |-> NoFile],
     fetches |-> [a \in Artifacts |-> 0],
     deployed |-> {},
     dnswrites |-> 0]

\* Threads of a pool that are neither blocked in queue.get() nor dead.
SigBusy(r) == {s \in Streams : r.sig[s] \in {"download", "copy", "dead"}}
DiffBusy(r) == {s \in Streams : r.diff[s].st \in {"loop", "fetch", "copy", "dead"}}

\* The main thread is inside work() with the pools started.
PoolsLive(r) == r.started /\ r.pc \in {"enqueue", "join"}

\* A mirror left by earlier runs: every bundle at version 1, with its first diff.
OldMirror == [s \in Streams |-> Bundle(1)]

OldDiffs == {Cdiff(s, 1) : s \in Streams \cap DiffTypes}

DiffsOf(s) == {a \in DiffNames : a[1] = s}

\* The old mirror with the files of one signature type in any state and no
\* marker, or the old mirror with any marker.
Init ==
    /\ lock = 0
    /\ proc = [p \in Procs |-> InitProc]
    /\ workCvd = [s \in Streams |-> NoFile]
    /\ workDiff = {}
    /\ \/ /\ \E s \in Streams :
                /\ \E f \in {NoFile} \cup {Bundle(v) : v \in Versions} :
                      mirrorCvd = [OldMirror EXCEPT ![s] = f]
                /\ \E d \in SUBSET DiffsOf(s) :
                      mirrorDiff = (OldDiffs \ DiffsOf(s)) \cup d
          /\ dnsTxt = NoMarker
       \/ /\ mirrorCvd = OldMirror
          /\ mirrorDiff = OldDiffs
          /\ dnsTxt \in {Marker(r) : r \in Records}

(* ------------------------------------------------------------------ main *)
\* A lockf that never reports the lock as held.
LockAlwaysFree(holder) == TRUE

\* fcntl.lockf(lock, LOCK_EX | LOCK_NB) succeeds when no other process holds it.
LockFree(holder) == holder = 0

\* Invocations are numbered in the order in which they reach lockf.
Launched(p) ==
    /\ proc[p].pc = "start"
    /\ \A q \in Procs : q < p => proc[q].pc # "start"

\* The invocations that have held the lock, and those of them that are over.
Holders == {q \in Procs : proc[q].seq > 0}
Ended == {q \in Holders : proc[q].pc = "exited"}

\* main: the lock is taken, work(options) is entered.
LockAcquire(p) ==
    /\ Launched(p)
    /\ LockFree(lock)
    /\ Cardinality(Ended) <= MaxEnded
    /\ lock' = p
    /\ proc' = [proc EXCEPT ![p].pc = "get_record", ![p].passno = 1,
                            ![p].seq = Cardinality(Holders) + 1,
                            ![p].startver = [s \in Streams |->
                                                get_local_version(mirrorCvd[s])],
                            ![p].startdiffs = mirrorDiff,
                            ![p].startmarker = dnsTxt]
    /\ UNCHANGED fs

\* Leaving the process: the with-block closes the lock file.
Release(p) == IF lock = p THEN 0 ELSE lock

\* main: lockf raises IOError, "Another instance is already running", exit 254.
LockContended(p) ==
    /\ Launched(p)
    /\ ~LockFree(lock)
    /\ proc' = [proc EXCEPT ![p].pc = "exited", ![p].code = ExitLocked,
                            ![p].contended = TRUE]
    /\ UNCHANGED <<lock, fs>>

(* ------------------------------------------------------------ get_record *)
\* get_txt_record returns a non-empty record: get_record breaks and returns
\* it, and its pass counter goes out of scope.
QueryAnswer(p) ==
    /\ proc[p].pc = "get_record"
    /\ \E r \in Answers :
        proc' = [proc EXCEPT ![p].record = r, ![p].passno = 0, ![p].pc = "split",
                                ![p].lastq = "record"]
    /\ UNCHANGED <<lock, fs>>

\* get_record whose loop is one pass short.
QueryEmptyOnePassShort(p) ==
    /\ proc[p].pc = "get_record"
    /\ IF proc[p].passno < MaxPass - 1
       THEN /\ proc' = [proc EXCEPT ![p].passno = @ + 1, ![p].lastq = "empty"]
            /\ UNCHANGED lock
       ELSE /\ proc' = [proc EXCEPT ![p].pc = "exited", ![p].code = ExitNoRecord,
                                    ![p].lastq = "empty"]
            /\ lock' = IF lock = p THEN 0 ELSE lock
    /\ UNCHANGED fs

\* get_txt_record returns '' (IndexError or NXDOMAIN): next pass, or after the
\* last pass sys.exit(3).
QueryEmpty(p) ==
    /\ proc[p].pc = "get_record"
    /\ IF proc[p].passno < MaxPass
       THEN /\ proc' = [proc EXCEPT ![p].passno = @ + 1, ![p].lastq = "empty"]
            /\ UNCHANGED lock
       ELSE /\ proc' = [proc EXCEPT ![p].pc = "exited", ![p].code = ExitNoRecord,
                                    ![p].lastq = "empty"]
            /\ lock' = Release(p)
    /\ UNCHANGED fs

\* query() raises something get_txt_record does not catch: the exception
\* leaves work() and main() uncaught.
QueryRaise(p) ==
    /\ proc[p].pc = "get_record"
    /\ proc' = [proc EXCEPT ![p].pc = "exited", ![p].code = ExitUncaught,
                            ![p].lastq = "raise"]
    /\ lock' = Release(p)
    /\ UNCHANGED fs

(* ------------------------------------------------------------------ work *)
\* work that unpacks whatever the record holds and goes on.
SplitWithDefaults(p) ==
    /\ proc[p].pc = "split"
    /\ proc' = [proc EXCEPT ![p].started = TRUE, ![p].idx = 1, ![p].pc = "enqueue"]
    /\ UNCHANGED <<lock, fs>>

\* work: record.split(':') does not unpack into NumFields names: ValueError,
\* which nothing catches.
SplitFails(p) ==
    /\ proc[p].pc = "split"
    /\ Len(proc[p].record) # NumFields
    /\ proc' = [proc EXCEPT ![p].pc = "exited", ![p].code = ExitUncaught]
    /\ lock' = Release(p)
    /\ UNCHANGED fs

\* work: the record splits into NumFields fields; both pools are started.
SplitAndStart(p) ==
    /\ proc[p].pc = "split"
    /\ Len(proc[p].record) = NumFields
    /\ proc' = [proc EXCEPT ![p].started = TRUE, ![p].idx = 1, ![p].pc = "enqueue"]
    /\ UNCHANGED <<lock, fs>>

\* A work() that puts a diff item for every signature type.
DiffItemsForAll(s, localver, remotever) == << <<s, localver, remotever>> >>

\* The diff item work() puts for signature type s: none for main, none
\* without a local bundle version.
DiffItems(s, localver, remotever) ==
    IF s \in DiffTypes /\ localver # None
    THEN << <<s, localver, remotever>> >>
    ELSE <<>>

\* work: one iteration of the loop over the signature types.
Enqueue(p) ==
    /\ proc[p].pc = "enqueue"
    /\ LET s == SigTypes[proc[p].idx]
           items == DiffItems(s, get_local_version(mirrorCvd[s]),
                              VersionsOf(proc[p].record)[s])
       IN proc' = [proc EXCEPT
                    ![p].dqueue = @ \o items,
                    ![p].dunf = @ + Len(items),
                    ![p].mqueue = Append(@, s),
                    ![p].munf = @ + 1,
                    ![p].idx = @ + 1,
                    ![p].pc = IF proc[p].idx = Len(SigTypes) THEN "join" ELSE "enqueue"]
    /\ UNCHANGED <<lock, fs>>

\* A work() that goes on to create_dns_file without waiting for the queues.
JoinWithoutWaiting(p) ==
    /\ proc[p].pc = "join"
    /\ proc' = [proc EXCEPT ![p].pc = "create_dns_file"]
    /\ UNCHANGED <<lock, fs>>

\* work: dqueue.join() and mqueue.join() return.
Join(p) ==
    /\ proc[p].pc = "join"
    /\ proc[p].dunf = 0
    /\ proc[p].munf = 0
    /\ proc' = [proc EXCEPT ![p].pc = "create_dns_file"]
    /\ UNCHANGED <<lock, fs>>

(* ------------------------------------------------------- create_dns_file *)
\* create_dns_file with equal digests: nothing written, then sys.exit(0).
DnsFileCurrent(p) ==
    /\ proc[p].pc = "create_dns_file"
    /\ ~MarkerStale(dnsTxt, proc[p].record)
    /\ proc' = [proc EXCEPT ![p].pc = "exited", ![p].code = ExitOk]
    /\ lock' = Release(p)
    /\ UNCHANGED fs

\* create_dns_file with different digests: create_file opens mirrordir/dns.txt
\* for writing, which truncates it.
DnsFileOpen(p) ==
    /\ proc[p].pc = "create_dns_file"
    /\ MarkerStale(dnsTxt, proc[p].record)
    /\ dnsTxt' = Truncated
    /\ proc' = [proc EXCEPT ![p].pc = "create_file"]
    /\ UNCHANGED <<lock, mirrorCvd, workCvd, mirrorDiff, workDiff>>

\* create_file: open() raises IOError, which main() reports as exit 254.
DnsFileOpenFails(p) ==
    /\ proc[p].pc = "create_dns_file"
    /\ MarkerStale(dnsTxt, proc[p].record)
    /\ proc' = [proc EXCEPT ![p].pc = "exited", ![p].code = ExitLocked]
    /\ lock' = Release(p)
    /\ UNCHANGED fs

\* create_file: the record is written and the file closed, then sys.exit(0).
DnsFileWrite(p) ==
    /\ proc[p].pc = "create_file"
    /\ dnsTxt' = Marker(proc[p].record)
    /\ proc' = [proc EXCEPT ![p].pc = "exited", ![p].code = ExitOk,
                            ![p].dnswrites = @ + 1]
    /\ lock' = Release(p)
    /\ UNCHANGED <<mirrorCvd, workCvd, mirrorDiff, workDiff>>

(* ------------------------------------------------------------ update_sig *)
\* HTTP statuses download_sig reports as failure.
FailCodes == {404, 500}

\* update_sig: queue.get(), the version check, and for an up-to-date bundle
\* task_done().
UpdateSigGet(p) ==
    /\ PoolsLive(proc[p])
    /\ proc[p].mqueue # <<>>
    /\ Cardinality(SigBusy(proc[p])) < mqueue_workers
    /\ LET s == Head(proc[p].mqueue)
           stale == NeedsUpdate(get_local_version(mirrorCvd[s]),
                                VersionsOf(proc[p].record)[s])
       IN proc' = [proc EXCEPT
                    ![p].mqueue = Tail(@),
                    ![p].sig[s] = IF stale THEN "download" ELSE "noop",
                    ![p].munf = IF stale THEN @ ELSE @ - 1]
    /\ UNCHANGED <<lock, fs>>

\* download_sig(options, sign, remotever) gets status 200 and writes the body
\* to workdir/<s>.cvd.
SigDownloaded(p, s) ==
    /\ PoolsLive(proc[p])
    /\ proc[p].sig[s] = "download"
    /\ \E body \in Served :
        /\ workCvd' = [workCvd EXCEPT ![s] = body]
        /\ proc' = [proc EXCEPT ![p].sig[s] = "copy", ![p].got[s] = body,
                                ![p].fetches[Cvd(s)] = @ + 1]
    /\ UNCHANGED <<lock, mirrorCvd, mirrorDiff, workDiff, dnsTxt>>

\* download_sig gets another status: update_sig logs it and calls task_done().
SigDownloadFails(p, s) ==
    /\ PoolsLive(proc[p])
    /\ proc[p].sig[s] = "download"
    /\ \E code \in FailCodes :
        proc' = [proc EXCEPT ![p].sig[s] = "failed", ![p].fetches[Cvd(s)] = @ + 1,
                                ![p].munf = @ - 1]
    /\ UNCHANGED <<lock, fs>>

\* manager.request raises: download_sig logs it and then reads req, which is
\* unbound; the worker thread dies without task_done().
SigRequestRaises(p, s) ==
    /\ PoolsLive(proc[p])
    /\ proc[p].sig[s] = "download"
    /\ proc' = [proc EXCEPT ![p].sig[s] = "dead", ![p].fetches[Cvd(s)] = @ + 1]
    /\ UNCHANGED <<lock, fs>>

\* copy_sig that copies the bundle and leaves it in workdir.
SigCopyKeepsSource(p, s) ==
    /\ PoolsLive(proc[p])
    /\ proc[p].sig[s] = "copy"
    /\ mirrorCvd' = [mirrorCvd EXCEPT ![s] = workCvd[s]]
    /\ proc' = [proc EXCEPT ![p].sig[s] = "deployed",
                            ![p].deployed = @ \cup {Cvd(s)},
                            ![p].munf = @ - 1]
    /\ UNCHANGED <<lock, workCvd, mirrorDiff, workDiff, dnsTxt>>

\* copy_sig(sign, options, 0): workdir/<s>.cvd is moved over mirrordir/<s>.cvd;
\* then task_done().
SigCopy(p, s) ==
    /\ PoolsLive(proc[p])
    /\ proc[p].sig[s] = "copy"
    /\ mirrorCvd' = [mirrorCvd EXCEPT ![s] = workCvd[s]]
    /\ workCvd' = [workCvd EXCEPT ![s] = NoFile]
    /\ proc' = [proc EXCEPT ![p].sig[s] = "deployed",
                            ![p].deployed = @ \cup {Cvd(s)},
                            ![p].munf = @ - 1]
    /\ UNCHANGED <<lock, mirrorDiff, workDiff, dnsTxt>>

(* -------------------------------------------------------- download_diffs *)
\* download_diffs: queue.get() and the range of the for loop.
DownloadDiffsGet(p) ==
    /\ PoolsLive(proc[p])
    /\ proc[p].dqueue # <<>>
    /\ Cardinality(DiffBusy(proc[p])) < dqueue_workers
    /\ LET item == Head(proc[p].dqueue)
       IN proc' = [proc EXCEPT
                    ![p].dqueue = Tail(@),
                    ![p].diff[item[1]] =
                        [NoItem EXCEPT !.st = "loop", !.localver = item[2],
                                       !.remotever = item[3],
                                       !.todo = DiffRange(item[2], item[3])]]
    /\ UNCHANGED <<lock, fs>>

\* The next value of the for loop over a range.
NextNum(todo) == CHOOSE n \in todo : \A m \in todo : n <= m

\* download_diffs: the range is exhausted, task_done().
DiffsDone(p, s) ==
    /\ PoolsLive(proc[p])
    /\ proc[p].diff[s].st = "loop"
    /\ proc[p].diff[s].todo = {}
    /\ proc' = [proc EXCEPT ![p].diff[s].st = "done", ![p].dunf = @ - 1]
    /\ UNCHANGED <<lock, fs>>

\* download_diffs: mirrordir/<s>-<num>.cdiff exists, the step is passed over.
DiffSkip(p, s) ==
    /\ PoolsLive(proc[p])
    /\ proc[p].diff[s].st = "loop"
    /\ proc[p].diff[s].todo # {}
    /\ LET num == NextNum(proc[p].diff[s].todo)
       IN /\ Cdiff(s, num) \in mirrorDiff
          /\ proc' = [proc EXCEPT ![p].diff[s].todo = @ \ {num}]
    /\ UNCHANGED <<lock, fs>>

\* download_diffs: the file is missing, update_diff(options, sig_diff) starts
\* its first pass.
DiffBegin(p, s) ==
    /\ PoolsLive(proc[p])
    /\ proc[p].diff[s].st = "loop"
    /\ proc[p].diff[s].todo # {}
    /\ LET num == NextNum(proc[p].diff[s].todo)
       IN /\ Cdiff(s, num) \notin mirrorDiff
          /\ proc' = [proc EXCEPT ![p].diff[s].todo = @ \ {num},
                                  ![p].diff[s].num = num,
                                  ![p].diff[s].try = 1,
                                  ![p].diff[s].code = 0,
                                  ![p].diff[s].st = "fetch"]
    /\ UNCHANGED <<lock, fs>>

\* An update_diff whose loop makes one pass more.
EndPassOneMore(item) ==
    IF item.try < MaxTries + 1
    THEN [item EXCEPT !.try = @ + 1, !.st = "fetch"]
    ELSE [item EXCEPT !.try = 0, !.num = 0, !.code = 0, !.st = "loop"]

\* update_diff: the end of one pass of for _ in range(1, 6); no break, no
\* return: the next pass follows whatever the pass did.
EndPass(item) ==
    IF item.try < MaxTries
    THEN [item EXCEPT !.try = @ + 1, !.st = "fetch"]
    ELSE [item EXCEPT !.try = 0, !.num = 0, !.code = 0, !.st = "loop"]

\* update_diff: download_sig(opts, sig) gets status 200 and writes the body to
\* workdir/<s>-<num>.cdiff.
DiffDownloaded(p, s) ==
    /\ PoolsLive(proc[p])
    /\ proc[p].diff[s].st = "fetch"
    /\ workDiff' = workDiff \cup {Cdiff(s, proc[p].diff[s].num)}
    /\ proc' = [proc EXCEPT ![p].diff[s].st = "copy", ![p].diff[s].code = 200,
                            ![p].fetches[Cdiff(s, proc[p].diff[s].num)] = @ + 1]
    /\ UNCHANGED <<lock, mirrorCvd, workCvd, mirrorDiff, dnsTxt>>

\* update_diff: download_sig gets another status; the pass logs it and ends.
DiffDownloadFails(p, s) ==
    /\ PoolsLive(proc[p])
    /\ proc[p].diff[s].st = "fetch"
    /\ \E code \in FailCodes :
        proc' = [proc EXCEPT
                    ![p].diff[s] = EndPass([@ EXCEPT !.code = code]),
                    ![p].fetches[Cdiff(s, proc[p].diff[s].num)] = @ + 1]
    /\ UNCHANGED <<lock, fs>>

\* update_diff: manager.request raises; the worker thread dies in download_sig.
DiffRequestRaises(p, s) ==
    /\ PoolsLive(proc[p])
    /\ proc[p].diff[s].st = "fetch"
    /\ proc' = [proc EXCEPT ![p].diff[s].st = "dead",
                            ![p].fetches[Cdiff(s, proc[p].diff[s].num)] = @ + 1]
    /\ UNCHANGED <<lock, fs>>

\* update_diff: copy_sig(sig, opts, 1) moves the diff into mirrordir; the pass
\* ends.
DiffCopy(p, s) ==
    /\ PoolsLive(proc[p])
    /\ proc[p].diff[s].st = "copy"
    /\ LET a == Cdiff(s, proc[p].diff[s].num)
       IN /\ mirrorDiff' = mirrorDiff \cup {a}
          /\ workDiff' = workDiff \ {a}
          /\ proc' = [proc EXCEPT ![p].diff[s] = EndPass(@),
                                  ![p].deployed = @ \cup {a}]
    /\ UNCHANGED <<lock, mirrorCvd, workCvd, dnsTxt>>

\* The steps of invocation p: its main thread and its worker threads.
ProcNext(p) ==
    \/ LockAcquire(p)
    \/ LockContended(p)
    \/ QueryAnswer(p)
    \/ QueryEmpty(p)
    \/ QueryRaise(p)
    \/ SplitFails(p)
    \/ SplitAndStart(p)
    \/ Enqueue(p)
    \/ Join(p)
    \/ DnsFileCurrent(p)
    \/ DnsFileOpen(p)
    \/ DnsFileOpenFails(p)
    \/ DnsFileWrite(p)
    \/ UpdateSigGet(p)
    \/ DownloadDiffsGet(p)
    \/ \E s \in Streams :
        \/ SigDownloaded(p, s)
        \/ SigDownloadFails(p, s)
        \/ SigRequestRaises(p, s)
        \/ SigCopy(p, s)
        \/ DiffsDone(p, s)
        \/ DiffSkip(p, s)
        \/ DiffBegin(p, s)
        \/ DiffDownloaded(p, s)
        \/ DiffDownloadFails(p, s)
        \/ DiffRequestRaises(p, s)
        \/ DiffCopy(p, s)

Next == \E p \in Procs : ProcNext(p)

Spec == Init /\ [][Next]_vars

(* ---------------------------------------------------------------- claims *)
\* The invocation that took the lock last: nothing but its own threads has
\* touched the directories since it started.
Current(p) == proc[p].seq > 0 /\ proc[p].seq = Cardinality(Holders)

\* The remote version of s in the record of p.
HasRecord(p) == proc[p].record # <<>>
Remote(p, s) == VersionsOf(proc[p].record)[s]

ArtifactsOf(s) == {a \in Artifacts : a[1] = s}

\* update_sig has called task_done() for the item of s.
SigComplete(p, s) == proc[p].sig[s] \in {"noop", "failed", "deployed"}

\* C1: in update_sig a downloaded bundle is deployed only if the verifier
\* finds it valid and its version is the expected remote version: whenever
\* the run has deployed <s>.cvd, the body it downloaded passes check_download.
C1_DeployedOnlyIfVerified ==
    \A p \in Procs, s \in Streams :
        (Current(p) /\ Cvd(s) \in proc[p].deployed)
            => check_download(Remote(p, s), proc[p].got[s])

\* C2: if the local version was absent or below the remote version and the
\* download succeeded with a body that verifies, then once the item of s is
\* complete the mirror holds the valid bundle at the remote version and
\* workdir/<s>.cvd is gone.
C2_StaleBundleReplaced ==
    \A p \in Procs, s \in Streams :
        (/\ Current(p)
         /\ SigComplete(p, s)
         /\ NeedsUpdate(proc[p].startver[s], Remote(p, s))
         /\ proc[p].got[s].exists
         /\ check_download(Remote(p, s), proc[p].got[s]))
            => /\ mirrorCvd[s] = Bundle(Remote(p, s))
               /\ ~workCvd[s].exists

\* A run replaced an older local bundle by a verified download.
C2_Witness ==
    \E p \in Procs, s \in Streams :
        /\ Current(p)
        /\ proc[p].sig[s] = "deployed"
        /\ proc[p].startver[s] # None
        /\ proc[p].startver[s] < Remote(p, s)
        /\ check_download(Remote(p, s), proc[p].got[s])
        /\ mirrorCvd[s] = Bundle(Remote(p, s))

\* C3: a signature type whose local version is at or above the remote version
\* when the run starts sees no download (bundle or diff) and no deploy in
\* that run.
C3_UpToDateIsNoOp ==
    \A p \in Procs, s \in Streams :
        (/\ Current(p)
         /\ HasRecord(p)
         /\ proc[p].startver[s] # None
         /\ proc[p].startver[s] >= Remote(p, s))
            => \A a \in ArtifactsOf(s) :
                   proc[p].fetches[a] = 0 /\ a \notin proc[p].deployed

\* C4: a fetch that returned 404 is not followed by another fetch of the same
\* artifact in the run, and deploys nothing: no step requests the diff whose
\* last download_sig returned 404, or the bundle whose download failed, and
\* the step that gets a 404 leaves the mirror as it is.
C4_NotFoundIsFinal ==
    [][\A p \in Procs, s \in Streams :
        LET d == proc[p].diff[s]
            a == Cdiff(s, d.num)
        IN /\ d.code = 404 => proc'[p].fetches[a] = proc[p].fetches[a]
           /\ proc[p].sig[s] = "failed"
                => proc'[p].fetches[Cvd(s)] = proc[p].fetches[Cvd(s)]
           /\ (d.code # 404 /\ proc'[p].diff[s].code = 404)
                => (mirrorDiff' = mirrorDiff /\ mirrorCvd' = mirrorCvd)
      ]_vars

\* C5: the diff steps a diff item fetches are within localver+1..remotever
\* and missing from the mirror, and once the item is done they are all of
\* those.
C5_DiffStepsFetched ==
    \A p \in Procs, s \in Streams :
        LET d == proc[p].diff[s]
            wanted == {n \in (d.localver + 1)..d.remotever :
                          Cdiff(s, n) \notin proc[p].startdiffs}
            fetched == {n \in Versions : proc[p].fetches[Cdiff(s, n)] > 0}
        IN (Current(p) /\ d.st # "none")
            => /\ fetched \subseteq wanted
               /\ d.st = "done" => fetched = wanted


\* C6: create_dns_file rewrites dns.txt if and only if the digest of its
\* content ('' when it is missing) differs from the digest of the record: a
\* run that ends with exit code 0 has written the marker exactly when the
\* digests differed, not at all when the marker already held the record, and
\* leaves the marker equal to its record.
C6_MarkerRewrittenIffChanged ==
    \A p \in Procs :
        /\ proc[p].dnswrites <= 1
        /\ (Current(p) /\ proc[p].pc = "create_file")
                => get_file_md5(proc[p].startmarker) # get_md5(proc[p].record)
        /\ (Current(p) /\ proc[p].pc = "exited" /\ proc[p].code = ExitOk)
                => /\ proc[p].dnswrites = 1
                        <=> get_file_md5(proc[p].startmarker) # get_md5(proc[p].record)
                   /\ proc[p].startmarker = Marker(proc[p].record)
                        => proc[p].dnswrites = 0
                   /\ dnsTxt = Marker(proc[p].record)

\* A run found the marker of an identical record and ended without writing.
C6_Witness ==
    \E p \in Procs :
        /\ Current(p)
        /\ proc[p].pc = "exited"
        /\ proc[p].code = ExitOk
        /\ proc[p].startmarker = Marker(proc[p].record)
        /\ proc[p].dnswrites = 0
        /\ dnsTxt = proc[p].startmarker

\* C7: once the pools have started the run never hangs: until it has exited,
\* one of its threads can take a step, whatever the fetches returned.
C7_RunNeverHangs ==
    \A p \in Procs :
        (proc[p].started /\ proc[p].pc # "exited") => ENABLED ProcNext(p)

\* C8: every file present in the mirror directory is completely written.
\* Bundles and diffs are closed in workdir before copy_sig moves them; the
\* marker is the file that is written in place.
C8_MirrorFilesComplete == dnsTxt.exists => dnsTxt.complete

\* C9: get_record issues at most MaxPass queries, stops at the first record
\* and returns it, and exits with code 3 exactly when the last of MaxPass
\* queries came back empty; that invocation started no worker, queued no
\* item, fetched and deployed nothing and did not touch dns.txt.
C9_ResolverPasses ==
    \A p \in Procs :
        /\ proc[p].passno <= MaxPass
        /\ proc[p].pc = "get_record"
                => /\ proc[p].passno >= 1
                   /\ ~HasRecord(p)
                   /\ proc[p].lastq = (IF proc[p].passno = 1 THEN "none" ELSE "empty")
        /\ proc[p].lastq = "record" => (HasRecord(p) /\ proc[p].pc # "get_record")
        /\ (proc[p].pc = "exited" /\ proc[p].code = ExitNoRecord)
                <=> (proc[p].lastq = "empty" /\ proc[p].pc # "get_record")
        /\ (proc[p].pc = "exited" /\ proc[p].code = ExitNoRecord)
                => /\ proc[p].passno = MaxPass
                   /\ ~HasRecord(p)
                   /\ ~proc[p].started
                   /\ proc[p].mqueue = <<>> /\ proc[p].dqueue = <<>>
                   /\ proc[p].munf = 0 /\ proc[p].dunf = 0
                   /\ \A a \in Artifacts : proc[p].fetches[a] = 0
                   /\ proc[p].deployed = {}
                   /\ proc[p].dnswrites = 0
                   /\ Current(p) => dnsTxt = proc[p].startmarker

\* An invocation gave up after MaxPass empty answers.
C9_Witness ==
    \E p \in Procs :
        /\ proc[p].pc = "exited"
        /\ proc[p].code = ExitNoRecord
        /\ proc[p].passno = MaxPass
        /\ proc[p].lastq = "empty"

\* The invocations inside work().
InWork == {p \in Procs : proc[p].pc \notin {"start", "exited"}}

\* C10: at most one invocation is inside work() at a time, and it holds the
\* lock; an invocation that finds the lock held leaves at once with exit
\* code 254, having queried, fetched, deployed and written nothing, and no
\* step of an invocation outside work() changes a directory.
C10_SingleInstance ==
    /\ [](/\ Cardinality(InWork) <= 1
          /\ \A p \in InWork : lock = p
          /\ \A p \in Procs :
                proc[p].contended
                    => /\ proc[p].pc = "exited"
                       /\ proc[p].code = ExitLocked
                       /\ proc[p].seq = 0
                       /\ proc[p].lastq = "none"
                       /\ ~proc[p].started
                       /\ \A a \in Artifacts : proc[p].fetches[a] = 0
                       /\ proc[p].deployed = {}
                       /\ proc[p].dnswrites = 0)
    /\ [][/\ \A p \in Procs :
                (proc[p].pc = "start" /\ lock # 0 /\ proc'[p] # proc[p])
                    => /\ proc'[p].pc = "exited"
                       /\ proc'[p].contended
                       /\ UNCHANGED <<lock, fs>>
          /\ fs' # fs => \E p \in InWork : proc'[p] # proc[p]
         ]_vars

\* A second invocation has left with the lock-contention code while the
\* first is inside work().
C10_Witness ==
    \E p, q \in Procs :
        /\ p \in InWork
        /\ lock = p
        /\ proc[q].contended
        /\ proc[q].code = ExitLocked

\* The worker threads that are handling an item, by pool and item.
SigWorking(p, s) == proc[p].sig[s] \in {"download", "copy"}
DiffWorking(p, s) == proc[p].diff[s].st \in {"loop", "fetch", "copy"}

\* C11: within a run no two workers write the same file, in workdir or in
\* mirrordir.  A step that changes <s>.cvd in either directory is a step of
\* the one full-bundle worker that holds the item of s, and of no diff
\* worker; a step that changes a diff file changes <s>-<n>.cdiff with n a
\* step number, and is a step of the one diff worker that holds the item of s
\* and is at step n, and of no full-bundle worker.  A file in workdir belongs
\* to the worker that is about to move it.
C11_NoSharedFile ==
    /\ [](/\ \A s \in Streams :
                workCvd[s].exists
                    => \E p \in Procs : lock = p /\ proc[p].sig[s] = "copy"
          /\ \A a \in workDiff :
                /\ a[2] > 0
                /\ \E p \in Procs :
                        /\ lock = p
                        /\ proc[p].diff[a[1]].st = "copy"
                        /\ proc[p].diff[a[1]].num = a[2])
    /\ [][/\ \A s \in Streams :
                (workCvd'[s] # workCvd[s] \/ mirrorCvd'[s] # mirrorCvd[s])
                    => \E p \in Procs :
                          /\ lock = p
                          /\ SigWorking(p, s)
                          /\ proc'[p].sig[s] # proc[p].sig[s]
                          /\ \A t \in Streams \ {s} :
                                proc'[p].sig[t] = proc[p].sig[t]
                          /\ proc'[p].diff = proc[p].diff
          /\ \A a \in (workDiff' \cup mirrorDiff' \cup workDiff \cup mirrorDiff) :
                ((a \in workDiff') # (a \in workDiff)
                    \/ (a \in mirrorDiff') # (a \in mirrorDiff))
                    => /\ a[2] > 0
                       /\ \E p \in Procs :
                             /\ lock = p
                             /\ DiffWorking(p, a[1])
                             /\ proc[p].diff[a[1]].num = a[2]
                             /\ proc'[p].diff[a[1]] # proc[p].diff[a[1]]
                             /\ \A t \in Streams \ {a[1]} :
                                   proc'[p].diff[t] = proc[p].diff[t]
                             /\ proc'[p].sig = proc[p].sig
         ]_vars

\* The full-bundle worker and the diff worker of the same signature type
\* each hold a downloaded file in workdir at the same time.
C11_Witness ==
    \E p \in Procs, s \in Streams :
        /\ proc[p].sig[s] = "copy"
        /\ workCvd[s].exists
        /\ proc[p].diff[s].st = "copy"
        /\ Cdiff(s, proc[p].diff[s].num) \in workDiff

\* C12: download_sig reports every outcome that is not a success as a value
\* and never raises into the worker: each call makes one request, after
\* which the worker is back in its caller with (downloaded, code), and with
\* a code other than 200 workdir is as it was.
C12_FetcherReturnsValues ==
    [][\A p \in Procs, s \in Streams :
        LET d == proc[p].diff[s]
            a == Cdiff(s, d.num)
        IN /\ proc'[p].fetches[Cvd(s)] # proc[p].fetches[Cvd(s)]
                => /\ proc'[p].fetches[Cvd(s)] = proc[p].fetches[Cvd(s)] + 1
                   /\ proc'[p].sig[s] \in {"copy", "failed"}
                   /\ proc'[p].sig[s] = "failed"
                        => (workCvd' = workCvd /\ workDiff' = workDiff)
           /\ (d.st = "fetch" /\ proc'[p].fetches[a] # proc[p].fetches[a])
                => /\ proc'[p].fetches[a] = proc[p].fetches[a] + 1
                   /\ proc'[p].diff[s].st \in {"copy", "fetch", "loop"}
                   /\ proc'[p].diff[s].st # "copy"
                        => (workCvd' = workCvd /\ workDiff' = workDiff)
      ]_vars

\* C13: a record that does not split into exactly NumFields fields ends the
\* invocation with a non-zero exit code before a worker is started, an item
\* queued, an artifact fetched or deployed or dns.txt written; no invocation
\* goes on with such a record.
C13_BadRecordAborts ==
    \A p \in Procs :
        /\ proc[p].started => Len(proc[p].record) = NumFields
        /\ (HasRecord(p) /\ Len(proc[p].record) # NumFields)
                => /\ proc[p].pc \in {"split", "exited"}
                   /\ proc[p].pc = "exited" => proc[p].code \notin {ExitOk}
                   /\ ~proc[p].started
                   /\ proc[p].mqueue = <<>> /\ proc[p].dqueue = <<>>
                   /\ proc[p].munf = 0 /\ proc[p].dunf = 0
                   /\ \A s \in Streams :
                        proc[p].sig[s] = "none" /\ proc[p].diff[s].st = "none"
                   /\ \A a \in Artifacts : proc[p].fetches[a] = 0
                   /\ proc[p].deployed = {}
                   /\ proc[p].dnswrites = 0
                   /\ Current(p)
                        => /\ dnsTxt = proc[p].startmarker
                           /\ mirrorDiff = proc[p].startdiffs
                           /\ \A s \in Streams :
                                get_local_version(mirrorCvd[s]) = proc[p].startver[s]

\* An invocation got a record a field short and has left with a failure code.
C13_Witness ==
    \E p \in Procs :
        /\ Len(proc[p].record) = NumFields - 1
        /\ proc[p].pc = "exited"
        /\ proc[p].code = ExitUncaught
        /\ lock = 0

\* The one source host of a run: the value of the option --hostname.
opts_hostname == "hostname"

\* The hosts the requests of p for artifact a went to: download_sig builds
\* every URL as 'http://%s%s' % (opts.hostname, path).
HostsAsked(p, a) == IF proc[p].fetches[a] > 0 THEN {opts_hostname} ELSE {}

\* C14: when the download of an artifact from the configured host fails, the
\* same artifact is fetched from another mirror host within the run: a run
\* that has ended with a failed bundle download has asked a host other than
\* the configured one for that bundle.
C14_OtherMirrorTried ==
    \A p \in Procs, s \in Streams :
        (proc[p].pc = "exited" /\ proc[p].sig[s] = "failed")
            => HostsAsked(p, Cvd(s)) \ {opts_hostname} # {}

\* How often item x is in queue q.
CountIn(q, x) == Cardinality({i \in 1..Len(q) : q[i] = x})

\* The loop of work() has passed signature type s.
Enqueued(p, s) ==
    /\ proc[p].started
    /\ \E i \in 1..Len(SigTypes) : SigTypes[i] = s /\ i < proc[p].idx

\* The steps a worker takes with one item, from queue.get() to task_done().
SigSteps ==
    {<<"none", "download">>, <<"none", "noop">>, <<"download", "copy">>,
     <<"download", "failed">>, <<"download", "dead">>, <<"copy", "deployed">>}
DiffSteps ==
    {<<"none", "loop">>, <<"loop", "fetch">>, <<"loop", "done">>,
     <<"fetch", "copy">>, <<"fetch", "loop">>, <<"fetch", "dead">>,
     <<"copy", "fetch">>, <<"copy", "loop">>}

\* C15: a run puts one full-bundle item for each signature type and one diff
\* item (s, localver, remotever) for each diff-capable type whose local
\* bundle has a version when the loop reaches it, none for main and none
\* without a local version; each item is in the queue or with one worker,
\* never both, is taken from the head of its queue once and is marked done
\* once: the unfinished count of a queue is the number of its items that are
\* queued or being handled.
C15_OneItemPerStream ==
    /\ [](\A p \in Procs :
            /\ \A s \in Streams :
                /\ CountIn(proc[p].mqueue, s)
                        + (IF proc[p].sig[s] # "none" THEN 1 ELSE 0)
                    = (IF Enqueued(p, s) THEN 1 ELSE 0)
                /\ Cardinality({i \in 1..Len(proc[p].dqueue) : proc[p].dqueue[i][1] = s})
                        + (IF proc[p].diff[s].st # "none" THEN 1 ELSE 0)
                    = (IF /\ Enqueued(p, s)
                          /\ s \in DiffTypes
                          /\ proc[p].startver[s] # None
                       THEN 1 ELSE 0)
                /\ proc[p].diff[s].st # "none"
                    => /\ proc[p].diff[s].localver = proc[p].startver[s]
                       /\ proc[p].diff[s].remotever = Remote(p, s)
            /\ \A i \in 1..Len(proc[p].dqueue) :
                LET s == proc[p].dqueue[i][1]
                IN proc[p].dqueue[i] = <<s, proc[p].startver[s], Remote(p, s)>>
            /\ proc[p].munf = Len(proc[p].mqueue) + Cardinality(SigBusy(proc[p]))
            /\ proc[p].dunf = Len(proc[p].dqueue) + Cardinality(DiffBusy(proc[p])))
    /\ [][\A p \in Procs, s \in Streams :
            /\ proc'[p].sig[s] # proc[p].sig[s]
                => /\ <<proc[p].sig[s], proc'[p].sig[s]>> \in SigSteps
                   /\ proc[p].sig[s] = "none"
                        => /\ proc[p].mqueue # <<>>
                           /\ Head(proc[p].mqueue) = s
                           /\ proc'[p].mqueue = Tail(proc[p].mqueue)
            /\ proc'[p].diff[s].st # proc[p].diff[s].st
                => /\ <<proc[p].diff[s].st, proc'[p].diff[s].st>> \in DiffSteps
                   /\ proc[p].diff[s].st = "none"
                        => /\ proc[p].dqueue # <<>>
                           /\ Head(proc[p].dqueue)[1] = s
                           /\ proc'[p].dqueue = Tail(proc[p].dqueue)
         ]_vars

\* A run has drained both queues; the diff-capable type that had no local
\* bundle got no diff item, and its full-bundle item was handled.
C15_Witness ==
    \E p \in Procs, s \in Streams \cap DiffTypes :
        /\ proc[p].pc = "create_dns_file"
        /\ proc[p].startver[s] = None
        /\ proc[p].diff[s].st = "none"
        /\ proc[p].sig[s] = "deployed"
        /\ \A t \in Streams : proc[p].sig[t] # "none"
        /\ \E t \in Streams \cap DiffTypes : proc[p].diff[t].st = "none"

\* Both queues of p are empty and every item taken from them is done.
Drained(p) ==
    /\ proc[p].mqueue = <<>> /\ proc[p].dqueue = <<>>
    /\ proc[p].munf = 0 /\ proc[p].dunf = 0
    /\ \A s \in Streams :
        /\ SigComplete(p, s)
        /\ proc[p].diff[s].st \in {"none", "done"}

\* C16: dns.txt is written, and the run ends with exit code 0, only after
\* both joins have returned: an invocation that is in create_dns_file or has
\* exited with code 0 has no item queued or in flight, and a step that
\* changes dns.txt is a step of such an invocation.
C16_MarkerAfterDrain ==
    /\ [](\A p \in Procs :
            (\/ proc[p].pc \in {"create_dns_file", "create_file"}
             \/ proc[p].pc = "exited" /\ proc[p].code = ExitOk
             \/ proc[p].dnswrites > 0)
                => Drained(p))
    /\ [][dnsTxt' # dnsTxt
            => \E p \in Procs :
                  /\ lock = p
                  /\ proc[p].pc \in {"create_dns_file", "create_file"}
                  /\ Drained(p)
                  /\ proc'[p].pc # proc[p].pc
                  /\ proc'[p].sig = proc[p].sig
                  /\ proc'[p].diff = proc[p].diff
         ]_vars

\* A run that deployed a bundle and went through a diff item has written
\* dns.txt and left with exit code 0.
C16_Witness ==
    \E p \in Procs, s, t \in Streams :
        /\ proc[p].pc = "exited"
        /\ proc[p].code = ExitOk
        /\ proc[p].dnswrites = 1
        /\ proc[p].sig[s] = "deployed"
        /\ proc[p].diff[t].st = "done"
        /\ dnsTxt = Marker(proc[p].record)

C18_ExitCodesDistinct ==
    \A p \in Procs :
        proc[p].pc = "exited"
            => /\ proc[p].code = ExitLocked <=> proc[p].contended
               /\ proc[p].code = ExitLocked => proc[p].seq = 0
               /\ proc[p].code = ExitNoRecord
                    <=> (proc[p].seq > 0 /\ proc[p].lastq = "empty")
               /\ proc[p].code = ExitOk
                    => (proc[p].seq > 0 /\ proc[p].started /\ Drained(p))

\* C19: once a run has downloaded a diff step and deployed it, it requests
\* that step no more: no step counts a request for an artifact the run has
\* deployed, and no step deploys it again.
C19_NoFetchAfterDeploy ==
    [][\A p \in Procs, a \in DiffNames :
        a \in proc[p].deployed
            => /\ proc'[p].fetches[a] = proc[p].fetches[a]
               /\ ~(proc[p].diff[a[1]].st = "copy"
                        /\ proc[p].diff[a[1]].num = a[2]
                        /\ proc'[p].diff[a[1]].st # "copy")
      ]_vars

\* C20: whatever the source host serves, no step makes a bundle of the
\* mirror absent or unreadable or lowers its version.
C20_BundleNeverRegresses ==
    [][\A s \in Streams :
        verify_sigfile(mirrorCvd[s])
            => /\ verify_sigfile(mirrorCvd'[s])
               /\ get_local_version(mirrorCvd'[s]) >= get_local_version(mirrorCvd[s])
      ]_vars

====
